---- MODULE Spec2Model ----
(***************************************************************************)
(* Model of spotify-to-slack: one invocation of the status script (main)  *)
(* per run, the Slack profile it reads and writes, the Spotify player it  *)
(* queries and the cache file it persists between runs.                   *)
(*                                                                         *)
(* Strings are sequences of tokens.  The token " " is a whitespace        *)
(* character, "-" the dash, "a" an ordinary word, "badword" a word the    *)
(* profanity matcher matches, and an emoji code is one token.             *)
(***************************************************************************)
EXTENDS Integers, Sequences, FiniteSets, TLC

\* ------------------------------------------------------------------ bounds
MaxTime == 1
MaxRuns == 2
ShortTtl == 1
MaxCredentialsLen == 3
MaxTextLen == 3
MaxLogLen == 5
MaxLogLines == 2
MaxLogRequests == 3

\* ------------------------------------------------------- program constants
maxAttempts == 3
BackoffBaseMs == 250
FatalExitCode == 1
DEFAULT_statusEmoji == <<":headphones:">>
DEFAULT_statusEmojiUnicode == <<"U+1F3A7">>

\* ------------------------------------------------------------ string model
EmptyString == << >>
TrackSeparator == <<" ", "-", " ">>

RECURSIVE TrimStart(_)
TrimStart(s) ==
  IF s # << >> /\ Head(s) = " " THEN TrimStart(Tail(s)) ELSE s

RECURSIVE TrimEnd(_)
TrimEnd(s) ==
  IF s # << >> /\ s[Len(s)] = " " THEN TrimEnd(SubSeq(s, 1, Len(s) - 1)) ELSE s

\* String.prototype.trim
Trim(s) == TrimEnd(TrimStart(s))

\* String.prototype.includes
Includes(s, sub) ==
  \E i \in 1..(Len(s) - Len(sub) + 1) : SubSeq(s, i, i + Len(sub) - 1) = sub

\* An optional value: << >> is undefined, <<v>> is the value v.
Undefined == << >>
Some(v) == <<v>>

\* (x ?? dflt)
OrElse(opt, dflt) == IF opt = Undefined THEN dflt ELSE opt[1]

censorText(text) ==
  [i \in 1..Len(text) |-> IF text[i] = "badword" THEN "*" ELSE text[i]]

normalizeEmoji(emoji) == Trim(OrElse(emoji, EmptyString))

normalizeText(text) == Trim(OrElse(text, EmptyString))

\* mutant: the Unicode form of the sentinel emoji is not compared
isStatusOwnedByScript_CodeOnly(text, emoji, config) ==
  /\ normalizeEmoji(Some(emoji)) = config.statusEmoji
  /\ \/ text = EmptyString
     \/ Includes(text, TrackSeparator)

\* mutant: a text is owned only when it is empty
isStatusOwnedByScript_EmptyTextOnly(text, emoji, config) ==
  /\ normalizeEmoji(Some(emoji)) \in {config.statusEmoji, config.statusEmojiUnicode}
  /\ text = EmptyString

isStatusOwnedByScript(text, emoji, config) ==
  LET normalizedEmoji == normalizeEmoji(Some(emoji)) IN
    /\ \/ normalizedEmoji = config.statusEmoji
       \/ normalizedEmoji = config.statusEmojiUnicode
    /\ \/ text = EmptyString
       \/ Includes(text, TrackSeparator)

\* mutant: the two fields are compared as given
isEmptySlackStatus_Untrimmed(text, emoji) ==
  text = EmptyString /\ emoji = EmptyString

isEmptySlackStatus(text, emoji) ==
  normalizeText(Some(text)) = EmptyString /\ normalizeEmoji(Some(emoji)) = EmptyString

\* mutant: && for ||
isSafeToOverrideWhenPlayingTrack_Both(statusText, statusEmoji) ==
  statusText = EmptyString /\ statusEmoji = EmptyString

isSafeToOverrideWhenPlayingTrack(statusText, statusEmoji) ==
  statusText = EmptyString \/ statusEmoji = EmptyString

\* ------------------------------------------------------------- input sets
PlayerStates == {"playing", "paused", "stopped"}

\* what the player can report as artist and name of the current track
Tracks ==
  { [artist |-> <<"a">>, name |-> <<"a">>],
    [artist |-> << >>, name |-> <<"badword">>] }

Status(text, emoji) == [text |-> text, emoji |-> emoji, expiration |-> 0]
EmptyStatus == Status(EmptyString, EmptyString)

\* statuses the user or another app can set: cleared, whitespace only, partly
\* set, fully set, and ones carrying a sentinel emoji
ForeignStatuses ==
  { EmptyStatus,
    Status(<< >>, <<":pizza:">>),
    Status(<<"a">>, <<" ">>),
    Status(<<"a">>, <<":pizza:">>),
    Status(<<"a">>, <<":headphones:">>),
    Status(<<"a", " ", "-", " ", "a">>, <<" ", "U+1F3A7">>) }

FreshCache(t) ==
  [updatedAt |-> t, lastNonEmptyNonOwned |-> Undefined,
   emptyRead |-> Undefined, lastSetByScript |-> Undefined]

\* the cache file before the first run: absent, not parseable by cacheSchema,
\* or a record cacheSchema accepts that carries a field the schema does not know
InitialCacheFiles ==
  { [status |-> "missing", data |-> FreshCache(0)],
    [status |-> "corrupt", data |-> FreshCache(0)],
    [status |-> "valid",
     data |-> [updatedAt |-> 0, lastNonEmptyNonOwned |-> Undefined,
               emptyRead |-> Some([lastSeenAt |-> 0, consecutiveCount |-> 1]),
               lastSetByScript |-> Undefined, unknownField |-> "kept"]] }

\* config.local.json: absent, not parseable by configSchema, or a valid Config
\* (only the fields main reads are kept; an absent optional field is Undefined).
ConfigFiles ==
  [status : {"valid"},
   alwaysOverride : {Undefined, Some(TRUE)},
   statusTtlSeconds : {Undefined, Some(ShortTtl)},
   requireTwoEmptyReadsBeforeOverride : {Undefined, Some(FALSE)},
   emptyReadConfirmWindowSeconds : {Undefined, Some(ShortTtl)},
   cacheMaxAgeSeconds : {Undefined, Some(ShortTtl)}]
  \cup [status : {"missing", "invalid"},
        alwaysOverride : {Undefined}, statusTtlSeconds : {Undefined},
        requireTwoEmptyReadsBeforeOverride : {Undefined},
        emptyReadConfirmWindowSeconds : {Undefined},
        cacheMaxAgeSeconds : {Undefined}]

\* the configuration file leaves the empty-read and cache-age settings out
LeavesCacheSettingsOut(file) ==
  /\ file.requireTwoEmptyReadsBeforeOverride = Undefined
  /\ file.emptyReadConfirmWindowSeconds = Undefined
  /\ file.cacheMaxAgeSeconds = Undefined

\* ------------------------------------------------------------------ state
VARIABLES
  now,              \* wall clock, epoch seconds
  remote,           \* the Slack profile status held by the server
  remoteByScript,   \* history: remote is what a users.profile.set of the script wrote
  remoteSetAt,      \* history: the clock when that users.profile.set was issued
  cacheFile,        \* .slack_status_cache.json
  configFile,       \* config.local.json
  runs,             \* number of invocations so far
  pc,               \* position of main
  runtimeConfig,    \* main: runtimeConfig (Undefined before it is built)
  cache,            \* main: cache
  spotifyRunning,   \* main: spotifyRunning
  playerState,      \* main: playerState ("none" before it is sampled)
  attempt,          \* getSlackProfileWithRetry: attempt
  profileResponse,  \* main: profileResponse (Undefined before the read returns)
  statusText, statusEmoji, statusExpiration,
  isOwnedByScript, isStatusEmpty, isSafeToOverride,
  rawTrackName, censoredTrackName, expirationEpoch,
  computedAt,       \* history: the clock when expirationEpoch was computed
  exitCode,         \* process exit code
  lastLog,          \* the last line this run has logged ("" before the first)
  sleeps,           \* setTimeout delays (ms) awaited by this run
  readOutcomes,     \* history: what each attempt of the users.profile.get in progress got
  snapshotByScript, \* history: the snapshot this run read was written by the script
  setCalls,         \* history: the users.profile.set calls issued by this run
  cacheFileAtStart, \* history: cacheFile when this run started
  cacheWrites,      \* history: number of writes of cacheFile by this run
  configUiPassword, \* ui-server: CONFIG_UI_PASSWORD (Undefined when unset)
  serverPc,         \* ui-server: "off", "starting", "serving" or "exited"
  request,          \* ui-server: the request fetch handled last (Undefined before)
  response,         \* ui-server: the status of the response to it (0 before)
  fileAccess,       \* history: what fetch did to files for it: "none", "read", "write"
  otherPc,          \* a second invocation of the script: position of its main
  otherCache,       \* a second invocation of the script: its cache
  otherRunsAtStart, \* history: the value of runs when the second invocation started
  otherOverlapped,  \* history: the second invocation ran while the first was running
  logFile,          \* spotify-status.log (Undefined when there is no such file)
  activeTab,        \* ui/app.ts: activeTab
  logsLoadedOnce,   \* ui/app.ts: logsLoadedOnce
  activeLogStream,  \* ui/app.ts: activeLogStream
  latestLogLines,   \* ui/app.ts: latestLogLines, as the stream they were read from
  logRequests,      \* ui/app.ts: the fetches of /api/logs that have not settled
  logButtonsDisabled \* ui/app.ts: logReloadButton.disabled and logClearButton.disabled

envVars == <<now, remote, remoteByScript, remoteSetAt>>
fileVars == <<cacheFile, configFile>>
classifyVars ==
  <<statusText, statusEmoji, statusExpiration, isOwnedByScript, isStatusEmpty,
    isSafeToOverride>>
trackVars == <<rawTrackName, censoredTrackName, expirationEpoch, computedAt>>
readVars == <<attempt, profileResponse, sleeps, readOutcomes, snapshotByScript>>
playerVars == <<spotifyRunning, playerState>>
scriptVars ==
  <<envVars, fileVars, runs, pc, runtimeConfig, cache, playerVars, readVars,
    classifyVars, trackVars, exitCode, lastLog, setCalls, cacheFileAtStart,
    cacheWrites>>
serverVars == <<configUiPassword, serverPc, request, response, fileAccess>>
otherVars == <<otherPc, otherCache, otherRunsAtStart, otherOverlapped>>
uiVars ==
  <<activeTab, logsLoadedOnce, activeLogStream, latestLogLines, logRequests,
    logButtonsDisabled>>
restVars == <<serverVars, otherVars, logFile, uiVars>>
vars == <<scriptVars, restVars>>

\* the config UI server is not running
ServerOff ==
  /\ configUiPassword = Undefined
  /\ serverPc = "off"
  /\ request = Undefined
  /\ response = 0
  /\ fileAccess = "none"

\* no second invocation of the script
OtherRunAbsent ==
  /\ otherPc = "idle"
  /\ otherCache = Undefined
  /\ otherRunsAtStart = 0
  /\ otherOverlapped = FALSE

\* the page of the config UI as it is when its script has run: the config tab,
\* the stdout stream selected, no logs loaded
UiLoaded ==
  /\ activeTab = "config"
  /\ logsLoadedOnce = FALSE
  /\ activeLogStream = "stdout"
  /\ latestLogLines = "none"
  /\ logRequests = << >>
  /\ logButtonsDisabled = FALSE

\* nothing but the status script and the config UI server: no second
\* invocation, no log file yet, the page of the UI untouched
NothingElse == OtherRunAbsent /\ logFile = Undefined /\ UiLoaded

\* the status script is not running: its files and the Slack status are there,
\* its locals are not
ScriptIdleOver(configFiles) ==
  /\ now = 0
  /\ remote \in ForeignStatuses
  /\ remoteByScript = FALSE
  /\ remoteSetAt = 0
  /\ cacheFile \in InitialCacheFiles
  /\ configFile \in configFiles
  /\ runs = 0
  /\ cache = Undefined
  /\ spotifyRunning = FALSE
  /\ playerState = "none"
  /\ attempt = 0
  /\ profileResponse = Undefined
  /\ statusExpiration = 0
  /\ isOwnedByScript = FALSE
  /\ isStatusEmpty = FALSE
  /\ isSafeToOverride = FALSE
  /\ rawTrackName = Undefined
  /\ censoredTrackName = Undefined
  /\ expirationEpoch = 0
  /\ computedAt = 0
  /\ exitCode = 0
  /\ lastLog = ""
  /\ sleeps = << >>
  /\ readOutcomes = << >>
  /\ snapshotByScript = FALSE
  /\ setCalls = << >>
  /\ cacheFileAtStart = cacheFile
  /\ cacheWrites = 0

ScriptIdle == ScriptIdleOver(ConfigFiles)

\* the status script has not been started yet
ScriptInit ==
  /\ ScriptIdle
  /\ pc = "idle"
  /\ runtimeConfig = Undefined
  /\ statusText = EmptyString
  /\ statusEmoji = EmptyString

Init == ScriptInit /\ ServerOff /\ NothingElse /\ LeavesCacheSettingsOut(configFile)

\* --------------------------------------------------------- main, step by step
DEFAULT_statusTtlSeconds == 120
DEFAULT_alwaysOverride == FALSE
DEFAULT_requireTwoEmptyReadsBeforeOverride == TRUE
DEFAULT_emptyReadConfirmWindowSeconds == 600
DEFAULT_cacheMaxAgeSeconds == 600
DEFAULT_logMaxLines == 5000
DEFAULT_logKeepLines == 3000

\* mutant: the catch handler logs the error and leaves process.exitCode alone
Fatal_KeepsExitCode ==
  /\ pc' = "exited"
  /\ exitCode' = exitCode
  /\ lastLog' = "ERROR Fatal error"

\* main().catch: log the error and set process.exitCode
Fatal ==
  /\ pc' = "exited"
  /\ exitCode' = FatalExitCode
  /\ lastLog' = "ERROR Fatal error"

\* mutant: an early return ends the process like a failure
Return_AsFailure(logged) ==
  /\ pc' = "exited"
  /\ exitCode' = FatalExitCode
  /\ lastLog' = logged

\* mutant: the return is missing, main stays where it is
Return_StaysInMain(logged) ==
  /\ pc' = pc
  /\ exitCode' = exitCode
  /\ lastLog' = logged

\* a return out of main: the process ends with the exit code it has
Return(logged) ==
  /\ pc' = "exited"
  /\ exitCode' = exitCode
  /\ lastLog' = logged

\* what writeFile can do: write the file, or fail leaving it as it was
WriteOutcomes == {"written", "failed"}

\* mutant: a save keeps the lastSetByScript of the file when the record in
\* memory has none
saveCache_MergesWithFile(c, outcome) ==
  LET stamped == [c EXCEPT !.updatedAt = now,
                           !.lastSetByScript =
                              IF @ = Undefined /\ cacheFile.status = "valid"
                                THEN cacheFile.data.lastSetByScript ELSE @] IN
    /\ cache' = Some([c EXCEPT !.updatedAt = now])
    /\ cacheFile' = IF outcome = "written" THEN [status |-> "valid", data |-> stamped]
                    ELSE cacheFile
    /\ cacheWrites' = cacheWrites + 1

\* saveCache: stamp updatedAt, then write the whole record; a writeFile that
\* fails is not caught
saveCache(c, outcome) ==
  LET stamped == [c EXCEPT !.updatedAt = now] IN
    /\ cache' = Some(stamped)
    /\ cacheFile' = IF outcome = "written" THEN [status |-> "valid", data |-> stamped]
                    ELSE cacheFile
    /\ cacheWrites' = cacheWrites + 1

\* the scheduler (launchd, or the user) starts the script: a new process
Invoke ==
  /\ UNCHANGED restVars
  /\ pc \in {"idle", "exited"}
  /\ runs < MaxRuns
  /\ runs' = runs + 1
  /\ pc' = "loadConfiguration"
  /\ runtimeConfig' = Undefined
  /\ cache' = Undefined
  /\ spotifyRunning' = FALSE
  /\ playerState' = "none"
  /\ attempt' = 0
  /\ profileResponse' = Undefined
  /\ statusText' = EmptyString
  /\ statusEmoji' = EmptyString
  /\ statusExpiration' = 0
  /\ isOwnedByScript' = FALSE
  /\ isStatusEmpty' = FALSE
  /\ isSafeToOverride' = FALSE
  /\ rawTrackName' = Undefined
  /\ censoredTrackName' = Undefined
  /\ expirationEpoch' = 0
  /\ computedAt' = 0
  /\ exitCode' = 0
  /\ lastLog' = ""
  /\ sleeps' = << >>
  /\ readOutcomes' = << >>
  /\ snapshotByScript' = FALSE
  /\ setCalls' = << >>
  /\ cacheFileAtStart' = cacheFile
  /\ cacheWrites' = 0
  /\ UNCHANGED <<envVars, fileVars>>

\* mutant: a file that configSchema rejects is used all the same
loadConfigurationThrows_MissingOnly(file) == file.status = "missing"

\* loadConfiguration: throws when the file is missing, is not JSON or is
\* rejected by configSchema
loadConfigurationThrows(file) == file.status # "valid"

\* main: loadConfiguration, then the defaulted runtimeConfig
LoadConfiguration ==
  /\ UNCHANGED restVars
  /\ pc = "loadConfiguration"
  /\ IF loadConfigurationThrows(configFile)
       THEN /\ Fatal
            /\ UNCHANGED runtimeConfig
       ELSE /\ runtimeConfig' =
                 Some([statusEmoji |-> DEFAULT_statusEmoji,
                       statusEmojiUnicode |-> DEFAULT_statusEmojiUnicode,
                       statusTtlSeconds |->
                         OrElse(configFile.statusTtlSeconds, DEFAULT_statusTtlSeconds),
                       alwaysOverride |->
                         OrElse(configFile.alwaysOverride, DEFAULT_alwaysOverride),
                       logMaxLines |-> DEFAULT_logMaxLines,
                       logKeepLines |-> DEFAULT_logKeepLines,
                       cacheMaxAgeSeconds |->
                         OrElse(configFile.cacheMaxAgeSeconds,
                                DEFAULT_cacheMaxAgeSeconds),
                       requireTwoEmptyReadsBeforeOverride |->
                         OrElse(configFile.requireTwoEmptyReadsBeforeOverride,
                                DEFAULT_requireTwoEmptyReadsBeforeOverride),
                       emptyReadConfirmWindowSeconds |->
                         OrElse(configFile.emptyReadConfirmWindowSeconds,
                                DEFAULT_emptyReadConfirmWindowSeconds)])
            /\ pc' = "loadCache"
            /\ lastLog' = "INFO spotify-status-on-slack"
            /\ UNCHANGED exitCode
  /\ UNCHANGED <<envVars, fileVars, runs, cache, playerVars, readVars, classifyVars,
                 trackVars, setCalls, cacheFileAtStart, cacheWrites>>

\* the fields cacheSchema declares
cacheSchemaFields == {"updatedAt", "lastNonEmptyNonOwned", "emptyRead", "lastSetByScript"}

\* mutant: a strict schema, which rejects a record with an unknown field
parseCacheAccepts_Strict(file) ==
  file.status = "valid" /\ DOMAIN file.data = cacheSchemaFields

\* parseCache: cacheSchema is .passthrough(), unknown fields are accepted and kept
parseCacheAccepts(file) ==
  file.status = "valid" /\ cacheSchemaFields \subseteq DOMAIN file.data

\* loadCache: a missing or unparseable file gives a fresh record
loadCache ==
  /\ UNCHANGED restVars
  /\ pc = "loadCache"
  /\ cache' = Some(IF parseCacheAccepts(cacheFile) THEN cacheFile.data ELSE FreshCache(now))
  /\ lastLog' = IF cacheFile.status # "missing" /\ ~parseCacheAccepts(cacheFile)
                  THEN "WARN Cache read failed; starting fresh."
                  ELSE lastLog
  /\ pc' = "isSpotifyRunning"
  /\ UNCHANGED <<envVars, fileVars, runs, runtimeConfig, playerVars, readVars,
                 classifyVars, trackVars, exitCode, setCalls, cacheFileAtStart,
                 cacheWrites>>

\* mutant: the return after the running check is missing
ExitsWhenNotRunning_Never(running) == FALSE

\* main: if (!spotifyRunning) return
ExitsWhenNotRunning(running) == ~running

\* isSpotifyRunning (true iff pgrep finds the player and does not fail) and the
\* gate after it
isSpotifyRunning ==
  /\ UNCHANGED restVars
  /\ pc = "isSpotifyRunning"
  /\ \E running \in BOOLEAN :
       /\ spotifyRunning' = running
       /\ IF ExitsWhenNotRunning(running)
            THEN Return("INFO Spotify is not running; exiting (no status change).")
            ELSE /\ pc' = "getSpotifyState"
                 /\ lastLog' = "DEBUG Spotify running check"
                 /\ UNCHANGED exitCode
  /\ UNCHANGED <<envVars, fileVars, runs, runtimeConfig, cache, playerState, readVars,
                 classifyVars, trackVars, setCalls, cacheFileAtStart, cacheWrites>>

\* what osascript prints for "player state", or "error" when it throws
PlayerStateOutputs == PlayerStates \cup {"error"}

\* getSpotifyState
getSpotifyState ==
  /\ UNCHANGED restVars
  /\ pc = "getSpotifyState"
  /\ \E out \in PlayerStateOutputs :
       playerState' = IF out \in PlayerStates THEN out ELSE "unknown"
  /\ lastLog' = "INFO Spotify player state"
  /\ attempt' = 1
  /\ pc' = "getSlackProfileWithRetry"
  /\ UNCHANGED <<envVars, fileVars, runs, runtimeConfig, cache, spotifyRunning,
                 profileResponse, sleeps, readOutcomes, snapshotByScript,
                 classifyVars, trackVars,
                 exitCode, setCalls, cacheFileAtStart, cacheWrites>>

\* mutant: a response with ok = false is retried like a throw
RetriesOn_OkFalseToo(outcome) == outcome \in {"throw", "notok"}

\* getSlackProfileWithRetry: only a throw of callSlackApi (transport error or a
\* non-JSON body) reaches the catch block, whatever the ok flag of a parsed body
RetriesOn(outcome) == outcome = "throw"

\* getSlackProfileWithRetry: setTimeout(resolve, 250 * attempt)
BackoffDelay(n) == BackoffBaseMs * n

\* mutant: attempt < maxAttempts
LoopContinues_OffByOne(n) == n < maxAttempts

\* getSlackProfileWithRetry: the loop condition attempt <= maxAttempts
LoopContinues(n) == n <= maxAttempts

\* a field of the users.profile.get body: Slack may leave the fields of a
\* cleared status out
ProfileField(v, blank, omit) == IF omit /\ v = blank THEN Undefined ELSE Some(v)

\* the body users.profile.get answers with
ProfileGetBody(outcome, omit) ==
  [ok |-> outcome = "ok",
   profile |->
     IF outcome = "ok"
       THEN Some([status_text |-> ProfileField(remote.text, EmptyString, omit),
                  status_emoji |-> ProfileField(remote.emoji, EmptyString, omit),
                  status_expiration |-> ProfileField(remote.expiration, 0, omit)])
       ELSE Undefined]

\* one iteration of the loop of getSlackProfileWithRetry, and on a returned
\* response the ok check of main
getSlackProfileWithRetry ==
  /\ UNCHANGED restVars
  /\ pc = "getSlackProfileWithRetry"
  /\ \E outcome \in {"ok", "notok", "throw"}, omit \in BOOLEAN :
       /\ omit => outcome = "ok" /\ remote = EmptyStatus
       /\ readOutcomes' = Append(readOutcomes, outcome)
       /\ IF RetriesOn(outcome)
            THEN /\ sleeps' = Append(sleeps, BackoffDelay(attempt))
                 /\ attempt' = attempt + 1
                 /\ UNCHANGED <<profileResponse, snapshotByScript>>
                 /\ IF LoopContinues(attempt + 1)
                      THEN /\ pc' = "getSlackProfileWithRetry"
                           /\ lastLog' = "WARN Slack profile.get failed, retrying"
                           /\ UNCHANGED exitCode
                      ELSE Fatal
            ELSE /\ profileResponse' = Some(ProfileGetBody(outcome, omit))
                 /\ snapshotByScript' = (outcome = "ok" /\ remoteByScript)
                 /\ UNCHANGED <<attempt, sleeps>>
                 /\ IF ~ProfileGetBody(outcome, omit).ok
                      THEN Return("WARN Slack users.profile.get returned ok=false; skipping to avoid overrides")
                      ELSE /\ pc' = "classify"
                           /\ UNCHANGED <<lastLog, exitCode>>
  /\ UNCHANGED <<envVars, fileVars, runs, runtimeConfig, cache, playerVars,
                 classifyVars, trackVars, setCalls, cacheFileAtStart, cacheWrites>>

\* mutant: the ownership of the status is not looked at
IsProtectedStatus_AnyFullStatus(owned, text, emoji) ==
  text # EmptyString /\ emoji # EmptyString

\* main: the condition under which the snapshot is recorded as protected
IsProtectedStatus(owned, text, emoji) ==
  ~owned /\ text # EmptyString /\ emoji # EmptyString

\* main: normalise and classify the snapshot, record a protected status, saveCache
classify ==
  /\ UNCHANGED restVars
  /\ pc = "classify"
  /\ \E written \in WriteOutcomes :
     LET profile == OrElse(profileResponse[1].profile,
                           [status_text |-> Undefined, status_emoji |-> Undefined,
                            status_expiration |-> Undefined])
         text == normalizeText(profile.status_text)
         emoji == normalizeEmoji(profile.status_emoji)
         expiration == OrElse(profile.status_expiration, 0)
         owned == isStatusOwnedByScript(text, emoji, runtimeConfig[1])
         safe == isSafeToOverrideWhenPlayingTrack(text, emoji) \/ owned
     IN /\ statusText' = text
        /\ statusEmoji' = emoji
        /\ statusExpiration' = expiration
        /\ isOwnedByScript' = owned
        /\ isStatusEmpty' = isEmptySlackStatus(text, emoji)
        /\ isSafeToOverride' = safe
        /\ saveCache(IF IsProtectedStatus(owned, text, emoji)
                       THEN [cache[1] EXCEPT !.lastNonEmptyNonOwned =
                               Some([text |-> text, emoji |-> emoji,
                                     expiration |-> expiration, observedAt |-> now])]
                       ELSE cache[1],
                     written)
        /\ IF written = "written"
             THEN /\ pc' = "checkGates"
                  /\ lastLog' = "INFO Slack current status snapshot"
                  /\ UNCHANGED exitCode
             ELSE Fatal
  \* the locals of getSlackProfileWithRetry are gone once it has returned
  /\ attempt' = 0
  /\ sleeps' = << >>
  /\ readOutcomes' = << >>
  /\ UNCHANGED <<envVars, configFile, runs, runtimeConfig, playerVars, profileResponse,
                 snapshotByScript, trackVars, setCalls, cacheFileAtStart>>

\* mutant: only "paused" counts as not playing
IsNotPlaying_PausedOnly(state) == state = "paused"

\* main: if (playerState !== "playing") return
IsNotPlaying(state) == state # "playing"

\* mutant: the alwaysOverride flag is read inverted
SkipsUpdate_Inverted(safe, alwaysOverride) == ~safe /\ alwaysOverride

\* mutant: the alwaysOverride flag is not read
SkipsUpdate_NoOverride(safe, alwaysOverride) == ~safe

\* mutant: an empty status is also left alone until the cache holds an earlier
\* empty read, when requireTwoEmptyReadsBeforeOverride asks for it
SkipsUpdate_UntilSecondEmptyRead(safe, alwaysOverride) ==
  \/ ~safe /\ ~alwaysOverride
  \/ /\ runtimeConfig[1].requireTwoEmptyReadsBeforeOverride
     /\ isStatusEmpty
     /\ cache[1].emptyRead = Undefined

\* main: if (!isSafeToOverride && !runtimeConfig.alwaysOverride) return
SkipsUpdate(safe, alwaysOverride) == ~safe /\ ~alwaysOverride

\* main: the two gates between saveCache and the track query
checkGates ==
  /\ UNCHANGED restVars
  /\ pc = "checkGates"
  /\ IF IsNotPlaying(playerState)
       THEN Return("INFO Spotify not playing; exiting (status will expire if previously set).")
       ELSE IF SkipsUpdate(isSafeToOverride, runtimeConfig[1].alwaysOverride)
              THEN Return("WARN Skipping update because Slack status appears set by another app/user (both text and emoji are non-empty).")
              ELSE /\ pc' = "getSpotifyTrack"
                   /\ UNCHANGED <<lastLog, exitCode>>
  /\ UNCHANGED <<envVars, fileVars, runs, runtimeConfig, cache, playerVars, readVars,
                 classifyVars, trackVars, setCalls, cacheFileAtStart, cacheWrites>>

\* osascript: stdout.trim()
osascript(stdout) == Trim(stdout)

\* mutant: the time-to-live is not added
ExpirationEpoch_NoTtl(t, ttl) == t

\* main: expirationEpoch
ExpirationEpoch(t, ttl) == t + ttl

\* getSpotifyTrack (which does not catch a failure of osascript), censorText and
\* expirationEpoch
getSpotifyTrack ==
  /\ UNCHANGED restVars
  /\ pc = "getSpotifyTrack"
  /\ \/ /\ Fatal
        /\ UNCHANGED trackVars
     \/ \E track \in Tracks :
          LET song == osascript(track.artist \o TrackSeparator \o track.name) IN
            /\ rawTrackName' = Some(song)
            /\ censoredTrackName' = Some(censorText(song))
            /\ expirationEpoch' = ExpirationEpoch(now, runtimeConfig[1].statusTtlSeconds)
            /\ computedAt' = now
            /\ lastLog' = "INFO Updating Slack status to current track"
            /\ pc' = "setSlackProfile"
            /\ UNCHANGED exitCode
  /\ UNCHANGED <<envVars, fileVars, runs, runtimeConfig, cache, playerVars, readVars,
                 classifyVars, setCalls, cacheFileAtStart, cacheWrites>>

\* mutant: a users.profile.set answered with ok = false is sent again
AfterSetNotOk_SendsAgain == "setSlackProfile"

\* mutant: the cache is saved after a users.profile.set answered with ok = false
AfterSetNotOk_SavesCache == "saveLastSet"

\* mutant: after a users.profile.set answered with ok = false the status is read
\* again
AfterSetNotOk_ReadsAgain == "getSlackProfileWithRetry"

\* main: if (!setResponse.ok) { log; return } -- where main is after it
AfterSetNotOk == "exited"

\* main: callSlackApi("users.profile.set") and the ok check after it
setSlackProfile ==
  /\ UNCHANGED restVars
  /\ pc = "setSlackProfile"
  /\ LET profile == [status_text |-> censoredTrackName[1],
                     status_emoji |-> runtimeConfig[1].statusEmoji,
                     status_expiration |-> expirationEpoch]
     IN /\ setCalls' = Append(setCalls, [profile |-> profile, issuedAt |-> now])
        /\ \E outcome \in {"ok", "notok", "throw"} :
             IF outcome = "throw"
               THEN Fatal /\ UNCHANGED <<remote, remoteByScript, remoteSetAt>>
               ELSE IF outcome = "notok"
                      THEN /\ pc' = AfterSetNotOk
                           /\ exitCode' = exitCode
                           /\ lastLog' = "ERROR Slack users.profile.set failed"
                           /\ UNCHANGED <<remote, remoteByScript, remoteSetAt>>
                      ELSE /\ remote' = [text |-> profile.status_text,
                                         emoji |-> profile.status_emoji,
                                         expiration |-> profile.status_expiration]
                           /\ remoteByScript' = TRUE
                           /\ remoteSetAt' = now
                           /\ pc' = "saveLastSet"
                           /\ UNCHANGED <<lastLog, exitCode>>
  /\ UNCHANGED <<now, fileVars, runs, runtimeConfig, cache, playerVars,
                 readVars, classifyVars, trackVars, cacheFileAtStart, cacheWrites>>

\* mutant: the clock is stored as the expiration
LastSetByScript_NowAsExpiration(text, emoji, expiration, t) ==
  [text |-> text, emoji |-> emoji, expiration |-> t, setAt |-> t]

\* main: the value assigned to cache.lastSetByScript
LastSetByScript(text, emoji, expiration, t) ==
  [text |-> text, emoji |-> emoji, expiration |-> expiration, setAt |-> t]

\* main: record lastSetByScript, saveCache, "Done"
saveLastSet ==
  /\ UNCHANGED restVars
  /\ pc = "saveLastSet"
  /\ \E written \in WriteOutcomes :
       /\ saveCache([cache[1] EXCEPT !.lastSetByScript =
                       Some(LastSetByScript(censoredTrackName[1],
                                            runtimeConfig[1].statusEmoji,
                                            expirationEpoch, now))],
                    written)
       /\ IF written = "written" THEN Return("INFO Done") ELSE Fatal
  /\ UNCHANGED <<envVars, configFile, runs, runtimeConfig, playerVars, readVars,
                 classifyVars, trackVars, setCalls, cacheFileAtStart>>

\* ------------------------------------------------------------ environment
\* a second passes
Tick ==
  /\ UNCHANGED restVars
  /\ now < MaxTime
  /\ now' = now + 1
  /\ UNCHANGED <<remote, remoteByScript, remoteSetAt, fileVars, runs, pc, runtimeConfig,
                 cache, playerVars, readVars, classifyVars, trackVars, exitCode, lastLog,
                 setCalls, cacheFileAtStart, cacheWrites>>

\* A run observes the remote status once, in the users.profile.get response it
\* uses, and overwrites it in users.profile.set.  A change made by someone else
\* before that read is the same change made before the run; one made after the
\* read is either overwritten unseen by the set or the same change made after
\* the run.  So the status is changed from outside between runs only (the
\* status before the first run is any of ForeignStatuses).
RemoteChangeObservable == pc = "exited"

\* between two runs the user clears the Slack status, or a calendar app sets one
StatusesSetBetweenRuns == {EmptyStatus, Status(<<"a">>, <<":pizza:">>)}

\* the user or another app sets or clears the Slack status
ForeignStatusChange ==
  /\ UNCHANGED restVars
  /\ RemoteChangeObservable
  /\ \E st \in StatusesSetBetweenRuns \ {remote} : remote' = st
  /\ remoteByScript' = FALSE
  /\ remoteSetAt' = 0
  /\ UNCHANGED <<now, fileVars, runs, pc, runtimeConfig,
                 cache, playerVars, readVars, classifyVars, trackVars, exitCode, lastLog,
                 setCalls, cacheFileAtStart, cacheWrites>>

\* Slack clears a status whose status_expiration has passed
StatusExpires ==
  /\ UNCHANGED restVars
  /\ RemoteChangeObservable
  /\ remote.expiration # 0
  /\ now >= remote.expiration
  /\ remote' = EmptyStatus
  /\ remoteByScript' = FALSE
  /\ remoteSetAt' = 0
  /\ UNCHANGED <<now, fileVars, runs, pc, runtimeConfig,
                 cache, playerVars, readVars, classifyVars, trackVars, exitCode, lastLog,
                 setCalls, cacheFileAtStart, cacheWrites>>

Next ==
  \/ Invoke
  \/ LoadConfiguration
  \/ loadCache
  \/ isSpotifyRunning
  \/ getSpotifyState
  \/ getSlackProfileWithRetry
  \/ classify
  \/ checkGates
  \/ getSpotifyTrack
  \/ setSlackProfile
  \/ saveLastSet
  \/ Tick
  \/ ForeignStatusChange
  \/ StatusExpires

Spec == Init /\ [][Next]_vars

\* a step of main: the statement it is at, with the external call it awaits
\* (player query, Slack call, file read or write) returning or failing
RunStep ==
  \/ LoadConfiguration
  \/ loadCache
  \/ isSpotifyRunning
  \/ getSpotifyState
  \/ getSlackProfileWithRetry
  \/ classify
  \/ checkGates
  \/ getSpotifyTrack
  \/ setSlackProfile
  \/ saveLastSet

\* every external call main awaits eventually returns or fails, so a run that
\* can take a step eventually takes one; nothing obliges the scheduler to start
\* a run, the clock to tick or anyone to change the Slack status
TerminationInit ==
  /\ Init
  /\ configFile.alwaysOverride = Undefined
  /\ configFile.status = "valid" => configFile.statusTtlSeconds = Some(ShortTtl)
  /\ cacheFile.status # "corrupt"
  /\ remote \in StatusesSetBetweenRuns

TerminationSpec == TerminationInit /\ [][Next]_vars /\ WF_vars(RunStep)

\* ------------------------------------- runs under every cache-related setting
\* the status script started with a valid configuration that sets or leaves out
\* requireTwoEmptyReadsBeforeOverride, emptyReadConfirmWindowSeconds and
\* cacheMaxAgeSeconds, over a cache file that is absent or holds an empty read
SettingsInit ==
  /\ ScriptInit
  /\ ServerOff
  /\ NothingElse
  /\ configFile.status = "valid"
  /\ configFile.statusTtlSeconds = Some(ShortTtl)
  /\ (configFile.emptyReadConfirmWindowSeconds = Undefined)
       = (configFile.cacheMaxAgeSeconds = Undefined)
  /\ cacheFile.status \in {"missing", "valid"}
  /\ remote \in StatusesSetBetweenRuns

SettingsSpec == SettingsInit /\ [][Next]_vars

\* ------------------------------------------------------- config UI server
\* all sequences over S of length at most n
SeqsUpTo(S, n) == UNION {[1..k -> S] : k \in 0..n}

\* the characters credentials are made of: of a user name, the separator, of a
\* password
CredentialChars == {"u", ":", "p"}

\* base64 of one character, and back (a character outside the alphabet decodes
\* to nothing the password holds)
Base64EncodeChar(c) == CASE c = "u" -> "dQ" [] c = ":" -> "Og" [] c = "p" -> "cA"
Base64DecodeChar(t) ==
  CASE t = "dQ" -> "u" [] t = "Og" -> ":" [] t = "cA" -> "p" [] OTHER -> "?"
Base64Encode(str) == [i \in 1..Len(str) |-> Base64EncodeChar(str[i])]
Base64Decode(str) == [i \in 1..Len(str) |-> Base64DecodeChar(str[i])]

\* String.prototype.indexOf, 1-based: 0 when c does not occur
IndexOf(str, c) ==
  IF \E i \in 1..Len(str) : str[i] = c
    THEN CHOOSE i \in 1..Len(str) : str[i] = c /\ \A j \in 1..(i - 1) : str[j] # c
    ELSE 0

\* values of CONFIG_UI_PASSWORD: unset, empty, and passwords
Passwords == {Undefined, Some(<< >>), Some(<<"p">>), Some(<<"p", ":">>)}

\* Authorization headers: none, or a scheme followed by base64 credentials
AuthorizationHeaders ==
  {Undefined} \cup
  {Some(<<scheme>> \o Base64Encode(credentials)) :
     scheme \in {"Basic ", "Bearer "},
     credentials \in SeqsUpTo(CredentialChars, MaxCredentialsLen)}

Routes ==
  { [method |-> "GET", path |-> "/api/config"],
    [method |-> "PUT", path |-> "/api/config"],
    [method |-> "DELETE", path |-> "/api/logs"],
    [method |-> "GET", path |-> "/"],
    [method |-> "POST", path |-> "/"] }

Requests == [route : Routes, authorization : AuthorizationHeaders]

\* unauthorizedResponse: status 401
unauthorizedResponse == 401

\* const isAuthRequired = configUiPassword.length > 0
isAuthRequired == Len(OrElse(configUiPassword, EmptyString)) > 0

isAuthorizedRequest(req) ==
  LET authorizationHeader == OrElse(req.authorization, EmptyString) IN
    IF authorizationHeader = << >> \/ Head(authorizationHeader) # "Basic "
      THEN FALSE
      ELSE LET decodedCredentials == Base64Decode(Tail(authorizationHeader))
               separatorIndex == IndexOf(decodedCredentials, ":")
               providedPassword ==
                 IF separatorIndex > 0
                   THEN SubSeq(decodedCredentials, separatorIndex + 1,
                               Len(decodedCredentials))
                   ELSE EmptyString
               expected == OrElse(configUiPassword, EmptyString)
           IN IF Len(providedPassword) # Len(expected)
                THEN FALSE
                ELSE providedPassword = expected

\* mutant: only the API is behind the password, static files are not
RejectsRequest_ApiOnly(req) ==
  isAuthRequired /\ ~isAuthorizedRequest(req) /\ req.route.path # "/"

\* fetch: if (isAuthRequired && !isAuthorizedRequest(request))
RejectsRequest(req) == isAuthRequired /\ ~isAuthorizedRequest(req)

\* requestUrl.pathname.startsWith("/api/")
IsApiPath(path) == path \in {"/api/config", "/api/logs"}

\* handleApiRequest: the status it answers with and what it does to the config
\* and log files
handleApiRequest(route) ==
  CASE route = [method |-> "GET", path |-> "/api/config"]
         -> {[status |-> 200, access |-> "read"], [status |-> 500, access |-> "read"]}
    [] route = [method |-> "PUT", path |-> "/api/config"]
         -> {[status |-> 200, access |-> "write"], [status |-> 400, access |-> "none"]}
    [] route = [method |-> "DELETE", path |-> "/api/logs"]
         -> {[status |-> 200, access |-> "write"], [status |-> 400, access |-> "none"]}
    [] OTHER -> {[status |-> 404, access |-> "none"]}

\* serveStaticFile: the file of the UI build, or 500 when there is no build
serveStaticFile ==
  {[status |-> 200, access |-> "read"], [status |-> 500, access |-> "none"]}

\* ui-server start-up: exits when CONFIG_UI_PASSWORD is not defined
ServerStart ==
  /\ serverPc = "starting"
  /\ serverPc' = IF configUiPassword = Undefined THEN "exited" ELSE "serving"
  /\ UNCHANGED <<scriptVars, configUiPassword, request, response, fileAccess,
                 otherVars, logFile, uiVars>>

\* Bun.serve fetch: one request handled to its response
fetch ==
  /\ serverPc = "serving"
  /\ \E req \in Requests :
       /\ request' = Some(req)
       /\ IF RejectsRequest(req)
            THEN response' = unauthorizedResponse /\ fileAccess' = "none"
            ELSE \E out \in (IF IsApiPath(req.route.path)
                               THEN handleApiRequest(req.route)
                               ELSE IF req.route.method \notin {"GET", "HEAD"}
                                      THEN {[status |-> 405, access |-> "none"]}
                                      ELSE serveStaticFile) :
                   response' = out.status /\ fileAccess' = out.access
  /\ UNCHANGED <<scriptVars, configUiPassword, serverPc, otherVars, logFile, uiVars>>

\* the server is started with some CONFIG_UI_PASSWORD; the status script is idle
ServerInit ==
  /\ ScriptInit
  /\ NothingElse
  /\ remote = EmptyStatus
  /\ cacheFile.status = "missing"
  /\ configFile.status = "missing"
  /\ configUiPassword \in Passwords
  /\ serverPc = "starting"
  /\ request = Undefined
  /\ response = 0
  /\ fileAccess = "none"

ServerNext == ServerStart \/ fetch

ServerSpec == ServerInit /\ [][ServerNext]_vars

\* ------------------------------------------------- PUT /api/ui-config
\* config.local.json as the server finds it: absent, not JSON, or a JSON object
\* with a slackToken (possibly padded or blank), possibly a stdoutLogPath, a
\* setting the UI does not show, and settings the UI shows
StoredConfigFiles ==
  [status : {"valid"},
   slackToken : {<<"xoxp">>, <<" ", "xoxp">>, <<" ">>},
   stdoutLogPath : {Undefined, Some(<<" ">>)},
   requireTwoEmptyReadsBeforeOverride : {Some(FALSE)},
   alwaysOverride : {Undefined},
   statusTtlSeconds : {Undefined, Some(ShortTtl)},
   emptyReadConfirmWindowSeconds : {Undefined},
   cacheMaxAgeSeconds : {Undefined}]
  \cup [status : {"missing", "invalid"},
        slackToken : {EmptyString},
        stdoutLogPath : {Undefined},
        requireTwoEmptyReadsBeforeOverride : {Undefined},
        alwaysOverride : {Undefined}, statusTtlSeconds : {Undefined},
        emptyReadConfirmWindowSeconds : {Undefined},
        cacheMaxAgeSeconds : {Undefined}]

\* readConfigFile / parseConfig throw: the file is not JSON, or configSchema
\* rejects it (slackToken: nonEmptyString, tested after trimming)
parseConfigThrows(file) == file.status # "valid" \/ Trim(file.slackToken) = EmptyString

\* mutant: the strings are kept as they are stored
parseConfig_Verbatim(file) == file

\* parseConfig, on a file it accepts: configSchema's output -- slackToken is
\* trimmed (trimmedString), stdoutLogPath is trimmed and left out when blank
\* (optionalTrimmedString)
parseConfig(file) ==
  [file EXCEPT !.slackToken = Trim(@),
               !.stdoutLogPath = IF @ = Undefined \/ Trim(@[1]) = EmptyString
                                   THEN Undefined ELSE Some(Trim(@[1]))]

\* the keys of uiConfigSchema
UiConfigFields ==
  {"statusTtlSeconds", "alwaysOverride", "cacheMaxAgeSeconds",
   "emptyReadConfirmWindowSeconds"}

\* request bodies: the four settings; the same with a slackToken added, with a
\* setting missing, with a negative number
UiConfigPayloads ==
  [statusTtlSeconds : {0, ShortTtl}, alwaysOverride : BOOLEAN,
   cacheMaxAgeSeconds : {ShortTtl}, emptyReadConfirmWindowSeconds : {0}]
  \cup { [statusTtlSeconds |-> 0, alwaysOverride |-> TRUE, cacheMaxAgeSeconds |-> 0,
          emptyReadConfirmWindowSeconds |-> 0, slackToken |-> <<"a">>],
         [statusTtlSeconds |-> 0, alwaysOverride |-> TRUE, cacheMaxAgeSeconds |-> 0],
         [statusTtlSeconds |-> -1, alwaysOverride |-> TRUE, cacheMaxAgeSeconds |-> 0,
          emptyReadConfirmWindowSeconds |-> 0] }

\* uiConfigSchema.safeParse(requestPayload).success: strict, four settings
uiConfigSchemaAccepts(payload) ==
  /\ DOMAIN payload = UiConfigFields
  /\ payload.alwaysOverride \in BOOLEAN
  /\ payload.statusTtlSeconds >= 0
  /\ payload.cacheMaxAgeSeconds >= 0
  /\ payload.emptyReadConfirmWindowSeconds >= 0

\* { ...existingConfig.config, ...parsedUiConfig.data }
MergedConfig(existing, data) ==
  [f \in DOMAIN existing |-> IF f \in DOMAIN data THEN Some(data[f]) ELSE existing[f]]

\* handleApiRequest, PUT /api/ui-config: the status it answers with, what it
\* does to the config file, and the config file it leaves
putUiConfig(payload) ==
  IF ~uiConfigSchemaAccepts(payload)
    THEN {[status |-> 400, access |-> "none", file |-> configFile]}
  ELSE IF configFile.status = "missing"
    THEN {[status |-> 400, access |-> "none", file |-> configFile]}
  ELSE IF parseConfigThrows(configFile)
    THEN {[status |-> 400, access |-> "read", file |-> configFile]}
  ELSE {[status |-> 200, access |-> "write",
         file |-> parseConfig(MergedConfig(parseConfig(configFile), payload))],
        \* writeConfigFile threw
        [status |-> 400, access |-> "read", file |-> configFile]}

\* PUT /api/ui-config requests, without credentials and with the right ones
UiConfigRequests ==
  [route : {[method |-> "PUT", path |-> "/api/ui-config"]},
   authorization : {Undefined, Some(<<"Basic ">> \o Base64Encode(<<"u", ":", "p">>))},
   body : UiConfigPayloads]

\* Bun.serve fetch, for a PUT /api/ui-config
fetchUiConfig ==
  /\ serverPc = "serving"
  /\ \E req \in UiConfigRequests :
       /\ request' = Some(req)
       /\ IF RejectsRequest(req)
            THEN /\ response' = unauthorizedResponse
                 /\ fileAccess' = "none"
                 /\ configFile' = configFile
            ELSE \E out \in putUiConfig(req.body) :
                   /\ response' = out.status
                   /\ fileAccess' = out.access
                   /\ configFile' = out.file
  /\ UNCHANGED <<envVars, cacheFile, runs, pc, runtimeConfig, cache, playerVars,
                 readVars, classifyVars, trackVars, exitCode, lastLog, setCalls,
                 cacheFileAtStart, cacheWrites, configUiPassword, serverPc, otherVars,
                 logFile, uiVars>>

\* the server is started with a password, over some config file
ConfigUpdateInit ==
  /\ ScriptIdleOver(StoredConfigFiles)
  /\ NothingElse
  /\ remote = EmptyStatus
  /\ cacheFile.status = "missing"
  /\ pc = "idle"
  /\ runtimeConfig = Undefined
  /\ statusText = EmptyString
  /\ statusEmoji = EmptyString
  /\ configUiPassword = Some(<<"p">>)
  /\ serverPc = "starting"
  /\ request = Undefined
  /\ response = 0
  /\ fileAccess = "none"

ConfigUpdateSpec == ConfigUpdateInit /\ [][ServerStart \/ fetchUiConfig]_vars

\* ------------------------------------------------- the classifier functions
\* status texts: every string of whitespace, dashes and words up to MaxTextLen
ClassifierTexts == SeqsUpTo({" ", "-", "a"}, MaxTextLen)

\* status emoji: none, whitespace, the two sentinels bare and padded, another
ClassifierEmojis ==
  { << >>, <<" ">>, <<":headphones:">>, <<"U+1F3A7">>, <<" ", ":headphones:">>,
    <<"U+1F3A7", " ">>, <<":pizza:">> }

\* the configuration the classifiers are called with: the default sentinels
ClassifierConfig ==
  [statusEmoji |-> DEFAULT_statusEmoji,
   statusEmojiUnicode |-> DEFAULT_statusEmojiUnicode,
   statusTtlSeconds |-> DEFAULT_statusTtlSeconds,
   alwaysOverride |-> DEFAULT_alwaysOverride,
   logMaxLines |-> DEFAULT_logMaxLines,
   logKeepLines |-> DEFAULT_logKeepLines,
   cacheMaxAgeSeconds |-> DEFAULT_cacheMaxAgeSeconds,
   requireTwoEmptyReadsBeforeOverride |-> DEFAULT_requireTwoEmptyReadsBeforeOverride,
   emptyReadConfirmWindowSeconds |-> DEFAULT_emptyReadConfirmWindowSeconds]

\* a text and an emoji about to be classified
ClassifierInit ==
  /\ ScriptIdle
  /\ ServerOff
  /\ NothingElse
  /\ remote = EmptyStatus
  /\ cacheFile.status = "missing"
  /\ configFile.status = "missing"
  /\ pc = "classifier"
  /\ runtimeConfig = Some(ClassifierConfig)
  /\ statusText \in ClassifierTexts
  /\ statusEmoji \in ClassifierEmojis

\* the three classifier functions applied to the text and the emoji as given
applyClassifiers ==
  /\ pc = "classifier"
  /\ isOwnedByScript' = isStatusOwnedByScript(statusText, statusEmoji, runtimeConfig[1])
  /\ isStatusEmpty' = isEmptySlackStatus(statusText, statusEmoji)
  /\ isSafeToOverride' = isSafeToOverrideWhenPlayingTrack(statusText, statusEmoji)
  /\ pc' = "classified"
  /\ UNCHANGED <<envVars, fileVars, runs, runtimeConfig, cache, playerVars, readVars,
                 statusText, statusEmoji, statusExpiration, trackVars, exitCode,
                 lastLog, setCalls, cacheFileAtStart, cacheWrites, restVars>>

ClassifierNext == applyClassifiers

ClassifierSpec == ClassifierInit /\ [][ClassifierNext]_vars

\* ------------------------------------------------- overlapping invocations
\* A second invocation of the script, started by the scheduler or by hand while
\* or between runs of the first.  It is the same main; of its steps the model
\* keeps those that touch what the two invocations share, the cache file and
\* the Slack status.  It is active from its loadCache to its exit.  Its
\* runtimeConfig is built from the same configuration file.
otherRuntimeConfig ==
  [ClassifierConfig EXCEPT
     !.statusTtlSeconds = OrElse(configFile.statusTtlSeconds, DEFAULT_statusTtlSeconds),
     !.alwaysOverride = OrElse(configFile.alwaysOverride, DEFAULT_alwaysOverride)]

\* history: the second invocation has been active while the first was
OtherRunSees == otherOverlapped \/ pc \notin {"idle", "exited"} \/ runs # otherRunsAtStart

\* loadCache of the second invocation
otherLoadCache ==
  /\ otherPc = "idle"
  /\ otherCache' =
       Some(IF parseCacheAccepts(cacheFile) THEN cacheFile.data ELSE FreshCache(now))
  /\ otherPc' = "classify"
  /\ otherRunsAtStart' = runs
  /\ otherOverlapped' = (pc \notin {"idle", "exited"})
  /\ UNCHANGED <<scriptVars, serverVars, logFile, uiVars>>

\* the second invocation reads the status, classifies it, records a protected
\* status, saves the cache and goes through the two gates
otherClassify ==
  /\ otherPc = "classify"
  /\ \E written \in WriteOutcomes, state \in PlayerStates :
       LET text == normalizeText(Some(remote.text))
           emoji == normalizeEmoji(Some(remote.emoji))
           owned == isStatusOwnedByScript(text, emoji, otherRuntimeConfig)
           safe == isSafeToOverrideWhenPlayingTrack(text, emoji) \/ owned
           saved == [(IF IsProtectedStatus(owned, text, emoji)
                        THEN [otherCache[1] EXCEPT !.lastNonEmptyNonOwned =
                                Some([text |-> text, emoji |-> emoji,
                                      expiration |-> remote.expiration,
                                      observedAt |-> now])]
                        ELSE otherCache[1]) EXCEPT !.updatedAt = now]
       IN /\ otherCache' = Some(saved)
          /\ cacheFile' = IF written = "written"
                            THEN [status |-> "valid", data |-> saved] ELSE cacheFile
          /\ otherPc' = IF written # "written" THEN "failed"
                          ELSE IF ~IsNotPlaying(state)
                                  /\ ~SkipsUpdate(safe, otherRuntimeConfig.alwaysOverride)
                                 THEN "saveLastSet" ELSE "exited"
  /\ otherOverlapped' = OtherRunSees
  /\ UNCHANGED <<envVars, configFile, runs, pc, runtimeConfig, cache, playerVars,
                 readVars, classifyVars, trackVars, exitCode, lastLog, setCalls,
                 cacheFileAtStart, cacheWrites, serverVars, otherRunsAtStart, logFile,
                 uiVars>>

\* the second invocation sets the status (answered ok), records lastSetByScript
\* and saves the cache
otherSaveLastSet ==
  /\ otherPc = "saveLastSet"
  /\ \E written \in WriteOutcomes, track \in {t \in Tracks : t.artist # EmptyString} :
       LET label == censorText(osascript(track.artist \o TrackSeparator \o track.name))
           expiration == ExpirationEpoch(now, otherRuntimeConfig.statusTtlSeconds)
           saved == [otherCache[1] EXCEPT
                       !.lastSetByScript =
                          Some(LastSetByScript(label, otherRuntimeConfig.statusEmoji,
                                               expiration, now)),
                       !.updatedAt = now]
       IN /\ remote' = [text |-> label, emoji |-> otherRuntimeConfig.statusEmoji,
                         expiration |-> expiration]
          /\ remoteByScript' = TRUE
          /\ remoteSetAt' = now
          /\ otherCache' = Some(saved)
          /\ cacheFile' = IF written = "written"
                            THEN [status |-> "valid", data |-> saved] ELSE cacheFile
          /\ otherPc' = IF written = "written" THEN "exited" ELSE "failed"
  /\ otherOverlapped' = OtherRunSees
  /\ UNCHANGED <<now, configFile, runs, pc, runtimeConfig, cache, playerVars,
                 readVars, classifyVars, trackVars, exitCode, lastLog, setCalls,
                 cacheFileAtStart, cacheWrites, serverVars, otherRunsAtStart, logFile,
                 uiVars>>

\* the first invocation runs with the default configuration over a cache file
\* that is there
OverlapInit ==
  /\ ScriptInit
  /\ ServerOff
  /\ NothingElse
  /\ configFile.status = "valid"
  /\ configFile.alwaysOverride = Undefined
  /\ configFile.statusTtlSeconds = Some(ShortTtl)
  /\ LeavesCacheSettingsOut(configFile)
  /\ cacheFile.status = "valid"
  /\ remote \in StatusesSetBetweenRuns

\* the steps of the two invocations; the clock and the other users of the
\* Slack status stand still meanwhile
OverlapNext ==
  \/ Invoke
  \/ LoadConfiguration
  \/ loadCache
  \/ isSpotifyRunning
  \/ getSpotifyState
  \/ getSlackProfileWithRetry
  \/ classify
  \/ checkGates
  \/ getSpotifyTrack
  \/ setSlackProfile
  \/ saveLastSet
  \/ otherLoadCache
  \/ otherClassify
  \/ otherSaveLastSet

OverlapSpec == OverlapInit /\ [][OverlapNext]_vars

\* ------------------------------------------------------------ log trimming
\* The contents of a log file are a sequence of characters: "\n" is the line
\* feed, "x" any other character.

\* String.prototype.split("\n"): the pieces between the line feeds
RECURSIVE Split(_)
Split(contents) ==
  IF \A i \in 1..Len(contents) : contents[i] # "\n"
    THEN <<contents>>
    ELSE LET i == CHOOSE k \in 1..Len(contents) :
                    contents[k] = "\n" /\ \A j \in 1..(k - 1) : contents[j] # "\n"
         IN <<SubSeq(contents, 1, i - 1)>> \o Split(SubSeq(contents, i + 1, Len(contents)))

\* Array.prototype.join("\n")
RECURSIVE Join(_)
Join(lines) ==
  IF lines = << >> THEN << >>
  ELSE IF Len(lines) = 1 THEN lines[1]
  ELSE lines[1] \o <<"\n">> \o Join(Tail(lines))

\* trimLogFile: lineCount, which leaves out the empty piece after a final line feed
LineCount(contents) ==
  LET lines == Split(contents) IN
    IF lines[Len(lines)] = << >> THEN Len(lines) - 1 ELSE Len(lines)

\* trimLogFile, when no file operation fails: the file it leaves
trimLogFile(file, maxLines, keepLines) ==
  IF file = Undefined THEN file
  ELSE LET lines == Split(file[1])
           lineCount == LineCount(file[1])
           start == IF lineCount - keepLines > 0 THEN lineCount - keepLines ELSE 0
       IN IF lineCount <= maxLines THEN file
          \* lines.slice(start, lineCount).join("\n") + "\n"
          ELSE Some(Join(SubSeq(lines, start + 1, lineCount)) \o <<"\n">>)

\* log files: none, or any contents of up to MaxLogLen characters
LogFiles == {Undefined} \cup {Some(contents) : contents \in SeqsUpTo({"x", "\n"}, MaxLogLen)}

\* main is about to trim its log, with some logMaxLines and logKeepLines
LogTrimInit ==
  /\ ScriptIdle
  /\ ServerOff
  /\ OtherRunAbsent
  /\ UiLoaded
  /\ remote = EmptyStatus
  /\ cacheFile.status = "missing"
  /\ configFile.status = "valid"
  /\ configFile.alwaysOverride = Undefined
  /\ configFile.statusTtlSeconds = Undefined
  /\ LeavesCacheSettingsOut(configFile)
  /\ statusText = EmptyString
  /\ statusEmoji = EmptyString
  /\ pc = "trimLogFile"
  /\ \E maxLines \in 0..MaxLogLines, keepLines \in 0..MaxLogLines :
       runtimeConfig = Some([ClassifierConfig EXCEPT !.logMaxLines = maxLines,
                                                     !.logKeepLines = keepLines])
  /\ logFile \in LogFiles

\* main: await trimLogFile(...): the file is trimmed, or a file operation
\* fails, which is logged and goes no further
trimLogFileStep ==
  /\ pc = "trimLogFile"
  /\ \E outcome \in {"ok", "failed"} :
       IF outcome = "ok"
         THEN /\ logFile' = trimLogFile(logFile, runtimeConfig[1].logMaxLines,
                                         runtimeConfig[1].logKeepLines)
              /\ UNCHANGED lastLog
         ELSE /\ logFile # Undefined
              /\ logFile' = logFile
              /\ lastLog' = "WARN Log trimming failed (non-fatal)"
  /\ pc' = "loadCache"
  /\ UNCHANGED <<envVars, fileVars, runs, runtimeConfig, cache, playerVars, readVars,
                 classifyVars, trackVars, exitCode, setCalls, cacheFileAtStart,
                 cacheWrites, serverVars, otherVars, uiVars>>

LogTrimSpec == LogTrimInit /\ [][trimLogFileStep]_vars

\* ------------------------------------------------------- browser UI, logs tab
LogStreams == {"stdout", "stderr"}

\* loadLogsFromServer, up to its await fetch(...): the reload and clear buttons
\* are disabled and /api/logs is asked for the stream that is active now
loadLogsFromServer ==
  /\ Len(logRequests) < MaxLogRequests
  /\ logRequests' = Append(logRequests, activeLogStream')
  /\ logButtonsDisabled' = TRUE
  /\ UNCHANGED latestLogLines

\* activateTab(nextTab), from a click on a tab
activateTab ==
  /\ \E nextTab \in {"config", "logs"} :
       /\ activeTab' = nextTab
       /\ UNCHANGED activeLogStream
       /\ IF nextTab = "logs" /\ ~logsLoadedOnce
            THEN logsLoadedOnce' = TRUE /\ loadLogsFromServer
            ELSE UNCHANGED <<logsLoadedOnce, latestLogLines, logRequests,
                             logButtonsDisabled>>
  /\ UNCHANGED <<scriptVars, serverVars, otherVars, logFile>>

\* click on a stream button of the logs panel
streamButtonClick ==
  /\ activeTab = "logs"
  /\ \E stream \in LogStreams :
       /\ stream # activeLogStream
       /\ activeLogStream' = stream
  /\ loadLogsFromServer
  /\ UNCHANGED <<activeTab, logsLoadedOnce, scriptVars, serverVars, otherVars, logFile>>

\* click on the reload button, which a pending loadLogsFromServer disables
logReloadButtonClick ==
  /\ activeTab = "logs"
  /\ ~logButtonsDisabled
  /\ UNCHANGED activeLogStream
  /\ loadLogsFromServer
  /\ UNCHANGED <<activeTab, logsLoadedOnce, scriptVars, serverVars, otherVars, logFile>>

\* the setInterval callback, every LOG_AUTO_REFRESH_INTERVAL_MS
autoRefresh ==
  /\ activeTab = "logs"
  /\ UNCHANGED activeLogStream
  /\ loadLogsFromServer
  /\ UNCHANGED <<activeTab, logsLoadedOnce, scriptVars, serverVars, otherVars, logFile>>

\* loadLogsFromServer, from the end of its await: the response to one of the
\* pending requests arrives, the responses coming in any order; its lines are
\* shown, or, when it is not a usable answer, no lines; the buttons are enabled
logResponseArrives ==
  /\ \E i \in DOMAIN logRequests, usable \in BOOLEAN :
       /\ latestLogLines' = IF usable THEN logRequests[i] ELSE "none"
       /\ logRequests' = [j \in 1..(Len(logRequests) - 1) |->
                            IF j < i THEN logRequests[j] ELSE logRequests[j + 1]]
  /\ logButtonsDisabled' = FALSE
  /\ UNCHANGED <<activeTab, logsLoadedOnce, activeLogStream, scriptVars, serverVars,
                 otherVars, logFile>>

\* the page has just been loaded
UiInit ==
  /\ ScriptIdle
  /\ ServerOff
  /\ NothingElse
  /\ remote = EmptyStatus
  /\ cacheFile.status = "missing"
  /\ configFile.status = "missing"
  /\ statusText = EmptyString
  /\ statusEmoji = EmptyString
  /\ pc = "idle"
  /\ runtimeConfig = Undefined

UiNext ==
  \/ activateTab
  \/ streamButtonClick
  \/ logReloadButtonClick
  \/ autoRefresh
  \/ logResponseArrives

UiSpec == UiInit /\ [][UiNext]_vars

\* ------------------------------------------------------------------ claims
\* the configuration of the run (main has built runtimeConfig)
Configured == runtimeConfig # Undefined
AlwaysOverride == runtimeConfig[1].alwaysOverride
StatusTtlSeconds == runtimeConfig[1].statusTtlSeconds

\* the run has a snapshot: a users.profile.get response with ok = true
SnapshotRead == profileResponse # Undefined /\ profileResponse[1].ok
SnapshotText == normalizeText(profileResponse[1].profile[1].status_text)
SnapshotEmoji == normalizeEmoji(profileResponse[1].profile[1].status_emoji)
SnapshotOwned == isStatusOwnedByScript(SnapshotText, SnapshotEmoji, runtimeConfig[1])

\* the run is past its last gate, on the way to or beyond users.profile.set
PastGates == pc \in {"getSpotifyTrack", "setSlackProfile", "saveLastSet"}
NoSetCall == setCalls = << >>

AllThrew == \A i \in 1..Len(readOutcomes) : readOutcomes[i] = "throw"
CacheFileUntouched == cacheWrites = 0 /\ cacheFile = cacheFileAtStart

\* the time-to-live the configuration file asks for
ConfiguredTtl == OrElse(configFile.statusTtlSeconds, DEFAULT_statusTtlSeconds)

\* C1: with alwaysOverride = false, a run whose snapshot has normalized text and
\* normalized emoji both non-empty and is not owned by the script never gets
\* past the override gate and issues no users.profile.set, whatever the player
\* state and the cache.
C1_ForeignStatusProtected ==
  (/\ SnapshotRead
   /\ ~AlwaysOverride
   /\ SnapshotText # EmptyString
   /\ SnapshotEmoji # EmptyString
   /\ ~SnapshotOwned)
  => NoSetCall /\ ~PastGates

C1_Witness ==
  /\ pc = "exited"
  /\ SnapshotRead
  /\ ~AlwaysOverride
  /\ SnapshotText = <<"a">>
  /\ SnapshotEmoji = <<":pizza:">>
  /\ playerState = "playing"
  /\ NoSetCall
  /\ cacheFile.data.lastNonEmptyNonOwned # Undefined

\* the run has issued exactly one users.profile.set, carrying the censored track
\* label, the configured emoji and expiration = clock + statusTtlSeconds
OneSetCallSent ==
  /\ Len(setCalls) = 1
  /\ rawTrackName # Undefined
  /\ setCalls[1].profile =
       [status_text |-> censorText(rawTrackName[1]),
        status_emoji |-> DEFAULT_statusEmoji,
        status_expiration |-> computedAt + ConfiguredTtl]

\* the run was ended by an uncaught exception before any users.profile.set
ThrewBeforeSet ==
  NoSetCall /\ rawTrackName = Undefined /\ exitCode = 1 /\ lastLog = "ERROR Fatal error"

PartlySetSnapshot ==
  /\ SnapshotRead
  /\ playerState = "playing"
  /\ SnapshotText = EmptyString \/ SnapshotEmoji = EmptyString

C4_OwnStatusKeptUpdated ==
  /\ (snapshotByScript /\ pc # "classify") => isOwnedByScript
  /\ (snapshotByScript /\ pc = "exited" /\ playerState = "playing" /\ ~AlwaysOverride)
       => Len(setCalls) = 1

\* C5: a run that found the player not running is over right after the check: it
\* made no users.profile.get and no users.profile.set, and the cache file is what
\* it was when the run started.
C5_NotRunningNoEffect ==
  (cache # Undefined /\ pc # "isSpotifyRunning" /\ ~spotifyRunning)
  => /\ pc = "exited"
     /\ readOutcomes = << >>
     /\ profileResponse = Undefined
     /\ NoSetCall
     /\ CacheFileUntouched

C5_Witness ==
  /\ pc = "exited"
  /\ cache # Undefined
  /\ ~spotifyRunning
  /\ runs = 2
  /\ cacheFile.status = "valid"
  /\ cacheFile.data.lastSetByScript # Undefined
  /\ lastLog = "INFO Spotify is not running; exiting (no status change)."

\* C6: a run that sampled a player state other than "playing" (paused, stopped
\* or unknown) issues no users.profile.set, with any text (so no clearing call
\* either), whatever the snapshot and alwaysOverride.
C6_NotPlayingNoSet ==
  playerState \in {"paused", "stopped", "unknown"} => NoSetCall /\ ~PastGates

C6_Witness ==
  /\ pc = "exited"
  /\ playerState = "unknown"
  /\ SnapshotRead
  /\ AlwaysOverride
  /\ SnapshotText = EmptyString
  /\ NoSetCall

\* C7: a run that finds the player not running or not playing issues no
\* users.profile.set; every users.profile.set carries status_expiration = (the
\* clock when it was prepared) + statusTtlSeconds, prepared no later than it is
\* issued; so the status the script left on Slack expires at most
\* statusTtlSeconds after the last set.
C7_StatusExpiresAfterLastSet ==
  /\ (pc = "exited" /\ cache # Undefined /\ (~spotifyRunning \/ playerState # "playing"))
       => NoSetCall
  /\ \A i \in 1..Len(setCalls) :
       /\ setCalls[i].profile.status_expiration = computedAt + ConfiguredTtl
       /\ computedAt <= setCalls[i].issuedAt
  /\ remoteByScript => remote.expiration <= remoteSetAt + ConfiguredTtl

C7_Witness ==
  /\ runs = 2
  /\ pc = "exited"
  /\ playerState = "paused"
  /\ NoSetCall
  /\ remoteByScript
  /\ remote.expiration = remoteSetAt + ConfiguredTtl
  /\ now >= remote.expiration

\* C8 as stated: a users.profile.get response with ok = false is the only read
\* attempt of the run, ends the run at once, no users.profile.set is issued and
\* the cache file is untouched.
C8_Original ==
  (\E i \in 1..Len(readOutcomes) : readOutcomes[i] = "notok")
  => /\ Len(readOutcomes) = 1
     /\ pc = "exited"
     /\ NoSetCall
     /\ CacheFileUntouched

\* C8 amended: a users.profile.get response with ok = false is the last read
\* attempt of the run (only attempts that threw precede it), ends the run at
\* once with exit code 0, no users.profile.set is issued and the cache file is
\* untouched.
C8_OkFalseNotRetried ==
  (\E i \in 1..Len(readOutcomes) : readOutcomes[i] = "notok")
  => /\ readOutcomes[Len(readOutcomes)] = "notok"
     /\ \A j \in 1..(Len(readOutcomes) - 1) : readOutcomes[j] = "throw"
     /\ Len(readOutcomes) <= 3
     /\ profileResponse # Undefined /\ ~profileResponse[1].ok
     /\ pc = "exited"
     /\ exitCode = 0
     /\ NoSetCall
     /\ CacheFileUntouched

C8_Witness ==
  /\ pc = "exited"
  /\ readOutcomes = <<"throw", "notok">>
  /\ NoSetCall
  /\ CacheFileUntouched

\* C9: the read is attempted at most 3 times; the i-th failed attempt is followed
\* by a wait of 250 ms x i; an attempt that returns a response is the last one
\* and its response is the one main uses; a run whose 3 attempts all threw is
\* over after exactly 3 attempts, without a users.profile.set.
C9_BoundedReadRetry ==
  /\ Len(readOutcomes) <= 3
  /\ pc = "getSlackProfileWithRetry" =>
       AllThrew /\ Len(readOutcomes) < 3 /\ attempt = Len(readOutcomes) + 1
  /\ readOutcomes # << >> =>
       /\ Len(sleeps) = Cardinality({i \in 1..Len(readOutcomes) : readOutcomes[i] = "throw"})
       /\ \A i \in 1..Len(sleeps) : sleeps[i] = 250 * i
  /\ \A k \in 1..Len(readOutcomes) :
       readOutcomes[k] # "throw" =>
         /\ k = Len(readOutcomes)
         /\ pc \in {"classify", "exited"}
         /\ profileResponse # Undefined
         /\ profileResponse[1].ok = (readOutcomes[k] = "ok")
         /\ pc = "classify" =>
              /\ SnapshotText = Trim(remote.text)
              /\ SnapshotEmoji = Trim(remote.emoji)
  /\ (readOutcomes # << >> /\ AllThrew /\ pc = "exited") =>
       Len(readOutcomes) = 3 /\ NoSetCall /\ profileResponse = Undefined

C9_Witness ==
  /\ pc = "exited"
  /\ readOutcomes = <<"throw", "throw", "throw">>
  /\ sleeps = <<250, 500, 750>>
  /\ NoSetCall

EndedFatal == pc = "exited" /\ lastLog = "ERROR Fatal error"

\* the run's users.profile.get was answered with ok = false
ReadNotOk == profileResponse # Undefined /\ ~profileResponse[1].ok

\* the run's users.profile.set was answered with ok = false
SetNotOk == pc = "exited" /\ lastLog = "ERROR Slack users.profile.set failed"

\* the run's users.profile.set threw (the cache was saved once, after
\* classification, and the run ended in main().catch after the call)
SetThrew == EndedFatal /\ Len(setCalls) = 1 /\ cacheWrites = 1

C12_ConfigFailureTouchesNothing ==
  (pc = "exited" /\ configFile.status # "valid")
  => /\ exitCode # 0
     /\ ~Configured
     /\ playerState = "none" /\ ~spotifyRunning /\ rawTrackName = Undefined
     /\ readOutcomes = << >> /\ profileResponse = Undefined /\ NoSetCall
     /\ cache = Undefined /\ CacheFileUntouched

C12_Witness ==
  /\ pc = "exited"
  /\ configFile.status = "invalid"
  /\ exitCode = 1
  /\ cache = Undefined
  /\ runs = 2

\* C13: a run issues at most one users.profile.set; one that was answered with
\* ok = false or that threw is the run's only one.
C13_AtMostOneSet ==
  /\ Len(setCalls) <= 1
  /\ SetNotOk => Len(setCalls) = 1

C13_Witness ==
  /\ SetNotOk
  /\ Len(setCalls) = 1
  /\ exitCode = 0
  /\ ~remoteByScript
\* the run's users.profile.set was answered with ok = true: only then does main
\* reach its second saveCache
SetReturnedOk == Len(setCalls) = 1 /\ (pc = "saveLastSet" \/ cacheWrites = 2)

\* lastSetByScript as the cache file held it when the run started
LastSetAtStart == cacheFileAtStart.data.lastSetByScript

\* lst holds exactly the text, emoji and expiration the run sent
HoldsWhatWasSent(lst) ==
  /\ lst # Undefined
  /\ lst[1].text = setCalls[1].profile.status_text
  /\ lst[1].emoji = setCalls[1].profile.status_emoji
  /\ lst[1].expiration = setCalls[1].profile.status_expiration

SnapshotIsForeignAndFull ==
  ~SnapshotOwned /\ SnapshotText # EmptyString /\ SnapshotEmoji # EmptyString

\* the expiration of the snapshot (0 when the response leaves it out)
SnapshotExpiration == OrElse(profileResponse[1].profile[1].status_expiration, 0)

\* lastNonEmptyNonOwned as the cache file held it when the run started
LastForeignAtStart == cacheFileAtStart.data.lastNonEmptyNonOwned

\* the cache file holds, as lastNonEmptyNonOwned, the snapshot of this run with
\* an observation time of this run, or else what it held when the run started
PersistedForeignIsAsClaimed ==
  LET lno == cacheFile.data.lastNonEmptyNonOwned IN
    IF SnapshotIsForeignAndFull
      THEN /\ lno # Undefined
           /\ lno[1].text = SnapshotText
           /\ lno[1].emoji = SnapshotEmoji
           /\ lno[1].expiration = SnapshotExpiration
           /\ lno[1].observedAt <= now
           /\ cacheWrites = 1 => lno[1].observedAt = cacheFile.data.updatedAt
      ELSE lno = LastForeignAtStart

SnapshotIsEmpty == isEmptySlackStatus(SnapshotText, SnapshotEmoji)

\* the cache the run started from records an empty read no older than
\* emptyReadConfirmWindowSeconds
EmptyReadSeenBefore ==
  LET emptyRead == cacheFileAtStart.data.emptyRead IN
    /\ cacheFileAtStart.status = "valid"
    /\ emptyRead # Undefined
    /\ emptyRead[1].consecutiveCount >= 1
    /\ now - emptyRead[1].lastSeenAt <= runtimeConfig[1].emptyReadConfirmWindowSeconds

\* C16: with requireTwoEmptyReadsBeforeOverride = true (the default), a run
\* that read an empty status issues a users.profile.set only if an earlier read
\* within emptyReadConfirmWindowSeconds saw an empty status too.
C16_TwoEmptyReadsRequired ==
  (/\ SnapshotRead
   /\ runtimeConfig[1].requireTwoEmptyReadsBeforeOverride
   /\ SnapshotIsEmpty
   /\ ~NoSetCall)
  => EmptyReadSeenBefore
\* the run started from a cache file that is missing or that loadCache cannot
\* read, parse or validate
BadCacheFileAtStart == cacheFileAtStart.status # "valid"

\* a write of the cache file by this run failed: the file the run found unusable
\* is still unusable after the run has saved the cache
CacheWriteFailed == BadCacheFileAtStart /\ cacheWrites >= 1 /\ cacheFile.status # "valid"

TrackQueryFails == pc = "getSpotifyTrack" /\ pc' = "exited"

\* C18: a player query that fails is recovered locally and the run takes the
\* no-op path -- a failed running check counts as not running, a failed state
\* query as "unknown", and a failed track-label query too ends the run with no
\* users.profile.set and without failing (exit code 0, no fatal error).
C18_PlayerQueryFailureRecovered ==
  [][/\ playerState' = "unknown" => setCalls' = << >>
     /\ TrackQueryFails
          => /\ setCalls' = << >>
             /\ exitCode' = 0
             /\ lastLog' # "ERROR Fatal error"]_vars
\* the request carries a Basic Authorization header whose credentials are a user
\* name, ":" and exactly the password pw
HasBasicPassword(req, pw) ==
  \E user \in SeqsUpTo(CredentialChars \ {":"}, MaxCredentialsLen) :
    req.authorization = Some(<<"Basic ">> \o Base64Encode(user \o <<":">> \o pw))

\* C19: with a non-empty CONFIG_UI_PASSWORD every request, API or static,
\* without a Basic Authorization header whose password part equals it is
\* answered 401 and touches no file; with the empty password no request is
\* answered 401; with the variable unset the server exits at start-up and
\* handles no request.
C19_ServerAuthentication ==
  /\ configUiPassword = Undefined
       => serverPc \in {"starting", "exited"} /\ request = Undefined
  /\ (request # Undefined /\ configUiPassword # Some(EmptyString)
         /\ ~HasBasicPassword(request[1], configUiPassword[1]))
       => response = 401 /\ fileAccess = "none"
  /\ (request # Undefined /\ configUiPassword = Some(EmptyString))
       => response # 401

C19_Witness ==
  /\ serverPc = "serving"
  /\ configUiPassword = Some(<<"p">>)
  /\ request # Undefined
  /\ request[1].route = [method |-> "GET", path |-> "/"]
  /\ request[1].authorization = Some(<<"Basic ", "dQ", "Og", "dQ">>)
  /\ response = 401
  /\ fileAccess = "none"
\* str holds a whitespace, a dash and a whitespace in a row
HasDashBetweenSpaces(str) ==
  \E i \in 1..(Len(str) - 2) : str[i] = " " /\ str[i + 1] = "-" /\ str[i + 2] = " "

\* C20: isStatusOwnedByScript(text, emoji, cfg) is true exactly when the
\* normalized emoji is cfg.statusEmoji or cfg.statusEmojiUnicode and the text is
\* empty or contains " - "; with any other emoji it is false whatever the text.
C20_OwnedIffSentinelAndDash ==
  pc = "classified"
  => /\ isOwnedByScript
          = (/\ normalizeEmoji(Some(statusEmoji))
                  \in {ClassifierConfig.statusEmoji, ClassifierConfig.statusEmojiUnicode}
             /\ statusText = << >> \/ HasDashBetweenSpaces(statusText))
     /\ normalizeEmoji(Some(statusEmoji)) \notin {<<":headphones:">>, <<"U+1F3A7">>}
          => ~isOwnedByScript

C20_Witness ==
  /\ pc = "classified"
  /\ statusText = <<" ", "-", " ">>
  /\ statusEmoji = <<"U+1F3A7", " ">>
  /\ isOwnedByScript

LooksOwnedButForeign ==
  /\ SnapshotRead
  /\ ~snapshotByScript
  /\ SnapshotEmoji \in {DEFAULT_statusEmoji, DEFAULT_statusEmojiUnicode}
  /\ Includes(SnapshotText, TrackSeparator)

C23_CacheSavedAtTwoCheckpoints ==
  /\ [](cacheWrites <= 2)
  /\ [][(cacheWrites' # cacheWrites \/ cacheFile' # cacheFile)
          => \/ /\ pc = "classify"
                /\ cacheWrites = 0 /\ cacheWrites' = 1
                /\ SnapshotRead
             \/ /\ pc = "saveLastSet"
                /\ cacheWrites = 1 /\ cacheWrites' = 2
                /\ Len(setCalls) = 1
                /\ remoteByScript
                /\ remote.text = setCalls[1].profile.status_text
             \/ /\ pc \in {"idle", "exited"}
                /\ pc' = "loadConfiguration"
                /\ cacheWrites' = 0
                /\ cacheFile' = cacheFile]_vars

C23_Witness ==
  /\ pc = "exited"
  /\ cacheWrites = 2
  /\ lastLog = "INFO Done"
  /\ cacheFile # cacheFileAtStart
  /\ cacheFile.data.lastSetByScript # Undefined

\* what the two gates decide, from the snapshot, the sampled player state,
\* alwaysOverride and the sentinel emoji alone
PassesBothGates ==
  /\ playerState = "playing"
  /\ \/ AlwaysOverride
     \/ SnapshotText = EmptyString
     \/ SnapshotEmoji = EmptyString
     \/ SnapshotOwned

StepOrder(step) ==
  CASE step = "idle" -> 0
    [] step = "loadConfiguration" -> 1
    [] step = "loadCache" -> 2
    [] step = "isSpotifyRunning" -> 3
    [] step = "getSpotifyState" -> 4
    [] step = "getSlackProfileWithRetry" -> 5
    [] step = "classify" -> 6
    [] step = "checkGates" -> 7
    [] step = "getSpotifyTrack" -> 8
    [] step = "setSlackProfile" -> 9
    [] step = "saveLastSet" -> 10
    [] step = "exited" -> 11

\* C25: within a run the steps follow one another in the order of main --
\* running check, status read, classification and cache save, playing gate,
\* override gate, users.profile.set -- and none is gone back to (the read
\* repeats only its own attempts); a run obtains at most one snapshot and never
\* replaces it; the playing gate is tested before the override gate; a
\* users.profile.set is issued only after that snapshot was classified and the
\* cache saved once, and after the gates passed on that same snapshot.
C25_StepsInOrder ==
  /\ [][pc' # pc
          => \/ StepOrder(pc') > StepOrder(pc)
             \/ pc = "exited" /\ pc' = "loadConfiguration"]_vars
  /\ [][(profileResponse # Undefined /\ pc' # "loadConfiguration")
          => /\ profileResponse' = profileResponse
             /\ pc # "classify" => <<statusText, statusEmoji>>' = <<statusText, statusEmoji>>]_vars
  /\ [](pc = "getSlackProfileWithRetry" => profileResponse = Undefined /\ NoSetCall)
  /\ []((pc = "exited"
           /\ lastLog = "WARN Skipping update because Slack status appears set by another app/user (both text and emoji are non-empty).")
          => playerState = "playing")
  /\ [][setCalls' # setCalls /\ setCalls' # << >>
          => /\ pc = "setSlackProfile"
             /\ SnapshotRead
             /\ statusText = SnapshotText /\ statusEmoji = SnapshotEmoji
             /\ isOwnedByScript = SnapshotOwned
             /\ cacheWrites = 1
             /\ PassesBothGates]_vars

C25_Witness ==
  /\ pc = "exited"
  /\ runs = 1
  /\ SnapshotRead
  /\ SnapshotText = <<"a">>
  /\ SnapshotEmoji = EmptyString
  /\ Len(setCalls) = 1
  /\ cacheWrites = 2
  /\ remote.text = setCalls[1].profile.status_text

\* the second invocation was not active at any time of the current run of the
\* first, and ended before it
OtherRunWasEarlier ==
  \/ otherPc = "idle"
  \/ otherPc \in {"exited", "failed"} /\ ~otherOverlapped /\ otherRunsAtStart < runs

\* the field f of the cache file is what this run holds in memory after having
\* assigned it itself
OverwrittenByThisRun(f) ==
  /\ cacheFile.data[f] = cache[1][f]
  /\ \/ f = "updatedAt"
     \/ f = "lastNonEmptyNonOwned" /\ SnapshotRead /\ SnapshotIsForeignAndFull
     \/ f = "lastSetByScript" /\ SetReturnedOk

\* C26: the cache file is not locked.  Every save replaces the whole file by
\* the saving run's in-memory record, so when two invocations overlap one
\* run's save can drop a lastSetByScript or lastNonEmptyNonOwned the other
\* persisted after the first loaded (lost update); that happens only when they
\* overlap.  At the end of a run that no other invocation overlapped, every
\* field the file held when the run started is still there with its value,
\* except the fields the run assigned itself.
C26_UnlockedCacheLosesUpdates ==
  /\ [][cacheFile' # cacheFile
          => IF cacheWrites' # cacheWrites
               THEN cacheFile'.data = cache'[1]
               ELSE otherPc' # otherPc /\ cacheFile'.data = otherCache'[1]]_vars
  /\ []((pc = "exited" /\ cache # Undefined /\ OtherRunWasEarlier)
          => \A f \in DOMAIN cacheFileAtStart.data :
               /\ f \in DOMAIN cacheFile.data
               /\ cacheFile.data[f] = cacheFileAtStart.data[f] \/ OverwrittenByThisRun(f))
  /\ []((/\ pc = "exited" /\ otherPc = "exited"
         /\ \E f \in {"lastSetByScript", "lastNonEmptyNonOwned"} :
              otherCache[1][f] # cacheFileAtStart.data[f]
              /\ otherCache[1][f] # Undefined /\ cacheFile.data[f] = Undefined)
          => otherOverlapped)

C26_Witness ==
  /\ runs = 1
  /\ pc = "exited"
  /\ exitCode = 0
  /\ otherPc = "exited"
  /\ otherOverlapped
  /\ otherCache[1].lastSetByScript # Undefined
  /\ cacheFile.data = cache[1]
  /\ cacheFile.data.lastSetByScript = Undefined

\* C27: every run terminates, provided each external call returns or fails: a
\* run that has started reaches the end of main (Done or an early exit) or
\* main().catch; the only step a run repeats is the status read, at most 3
\* attempts of it.
C27_EveryRunTerminates ==
  /\ [](pc \notin {"idle", "exited"} => <>(pc = "exited"))
  /\ [][(pc' = pc /\ pc \notin {"idle", "exited"} /\ now' = now)
          => /\ pc = "getSlackProfileWithRetry"
             /\ attempt' = attempt + 1
             /\ attempt' <= maxAttempts]_vars

C27_Witness ==
  /\ runs = 2
  /\ pc = "exited"
  /\ lastLog = "INFO Done"
  /\ cacheFileAtStart.status = "valid"
  /\ cacheFileAtStart.data.lastSetByScript # Undefined

\* C28: trimLogFile leaves a file of at most logMaxLines lines unchanged and
\* rewrites a longer one to exactly its last logKeepLines lines (all of them if
\* it has fewer), for every logKeepLines >= 0, 0 included; a trimming failure
\* leaves the run going.
C28_LogTrimmedToKeepLines ==
  [][pc = "trimLogFile"
      => LET \* the lines of a log file, as trimLogFile counts them
             LogLines(file) ==
               IF file = Undefined THEN << >>
               ELSE SubSeq(Split(file[1]), 1, LineCount(file[1]))
             before == LogLines(logFile)
             keep == runtimeConfig[1].logKeepLines
             kept == IF Len(before) > keep THEN keep ELSE Len(before)
         IN /\ pc' = "loadCache" /\ exitCode' = exitCode
            /\ Len(before) <= runtimeConfig[1].logMaxLines => logFile' = logFile
            /\ (Len(before) > runtimeConfig[1].logMaxLines
                  /\ lastLog' # "WARN Log trimming failed (non-fatal)")
                 => LogLines(logFile')
                      = SubSeq(before, Len(before) - kept + 1, Len(before))]_vars

C30_SettledLogsAreOfActiveStream ==
  (logRequests = << >> /\ latestLogLines # "none") => latestLogLines = activeLogStream
====
